---- MODULE Spec2Model ----
(***************************************************************************)
(* Model of the Titanic statistics helpers of apputil.py as driven by      *)
(* app.py: the table read from the CSV file, then survival_demographics,   *)
(* family_groups and last_names applied to it in that order.               *)
(*                                                                         *)
(* Text is a sequence of one-character strings, so that lower-casing,      *)
(* trimming and splitting are computed character by character.  A cell     *)
(* that may be missing (NaN) is a sequence of length 0 or 1.  Ages and     *)
(* fares are whole numbers; a mean is kept as an exact fraction and a      *)
(* survival rate in hundredths (round(x, 2) * 100).                        *)
(***************************************************************************)
EXTENDS Integers, Sequences, FiniteSets, TLC

VARIABLES df, pc, demographic_summary, family_summary, last_name_counts

vars == <<df, pc, demographic_summary, family_summary, last_name_counts>>

\* Largest number of records of a table that varies the demographic or the
\* family columns, and of a table that varies the names.
MaxRecords == 2
MaxNames == 3

-----------------------------------------------------------------------------
\* Characters and text

\* The characters used, in ASCII order; upper case and lower case are each
\* contiguous and in the same order, as in ASCII.
Ascii ==
  << "\t", " ", ",", ".",
     "A", "B", "C", "D", "E", "F", "G", "H", "I", "J", "K", "L", "M",
     "N", "O", "P", "Q", "R", "S", "T", "U", "V", "W", "X", "Y", "Z",
     "a", "b", "c", "d", "e", "f", "g", "h", "i", "j", "k", "l", "m",
     "n", "o", "p", "q", "r", "s", "t", "u", "v", "w", "x", "y", "z" >>

Ord(c) == CHOOSE i \in DOMAIN Ascii : Ascii[i] = c

IsUpper(c) == Ord(c) >= Ord("A") /\ Ord(c) <= Ord("Z")

IsSpace(c) == c \in {" ", "\t"}

\* str.lower()
StrLower(s) ==
  [i \in DOMAIN s |->
     IF IsUpper(s[i]) THEN Ascii[Ord(s[i]) + (Ord("a") - Ord("A"))] ELSE s[i]]

\* str.strip(): drop leading and trailing whitespace
StrStrip(s) ==
  LET keep == {i \in DOMAIN s : ~IsSpace(s[i])}
  IN  IF keep = {} THEN <<>>
      ELSE LET lo == CHOOSE i \in keep : \A j \in keep : i <= j
               hi == CHOOSE i \in keep : \A j \in keep : j <= i
           IN  SubSeq(s, lo, hi)

\* str.split(",")[0]: the text before the first comma, the whole text when
\* there is none
SplitFirst(s) ==
  LET commas == {i \in DOMAIN s : s[i] = ","}
  IN  IF commas = {} THEN s
      ELSE SubSeq(s, 1, (CHOOSE i \in commas : \A j \in commas : i <= j) - 1)

-----------------------------------------------------------------------------
\* survival_demographics

Male == <<"m", "a", "l", "e">>
Female == <<"f", "e", "m", "a", "l", "e">>

age_labels == <<"Child", "Teen", "Adult", "Senior">>
pclass_categories == <<1, 2, 3>>

\* Variant of sex_categories: the sexes listed in alphabetical order.
sex_categories_alphabetical == <<Female, Male>>

sex_categories == <<Male, Female>>

\* The finite bin edges of pd.cut; the last edge is float("inf").
bins == <<0, 12, 19, 59>>

Range(s) == {s[i] : i \in DOMAIN s}

\* pd.cut(Age, bins, labels) with the default right=True and
\* include_lowest=False: the label of the bin (lo, hi] the age falls in;
\* missing for a missing age and for an age in no bin.
Cut(age) ==
  IF age = <<>> THEN <<>>
  ELSE LET below == Cardinality({i \in DOMAIN bins : bins[i] < age[1]})
       IN  IF below = 0 THEN <<>> ELSE <<age_labels[below]>>

\* pd.Categorical(values, categories): a value outside the categories is
\* missing.
Categorical(v, categories) ==
  IF v # <<>> /\ v[1] \in Range(categories) THEN v ELSE <<>>

\* Variant of Prepare: the Sex column made categorical as it is read, neither
\* lower-cased nor trimmed.
PrepareSexAsRead(r) ==
  [r EXCEPT !.Pclass = Categorical(<<r.Pclass>>, pclass_categories),
            !.Sex = Categorical(<<r.Sex>>, sex_categories)]
  @@ [age_group |-> Categorical(Cut(r.Age), age_labels)]

\* Lines 25-37: the columns the grouping reads, per record.
Prepare(r) ==
  [r EXCEPT !.Pclass = Categorical(<<r.Pclass>>, pclass_categories),
            !.Sex = Categorical(<<StrStrip(StrLower(r.Sex))>>, sex_categories)]
  @@ [age_group |-> Categorical(Cut(r.Age), age_labels)]

\* pd.MultiIndex.from_product: the keys with the first level varying slowest.
FromProduct(a, b, c) ==
  [i \in 1..(Len(a) * Len(b) * Len(c)) |->
     [Pclass |-> a[((i - 1) \div (Len(b) * Len(c))) + 1],
      Sex |-> b[(((i - 1) \div Len(c)) % Len(b)) + 1],
      age_group |-> c[((i - 1) % Len(c)) + 1]]]

idx == FromProduct(pclass_categories, sex_categories, age_labels)

RECURSIVE SumSeq(_)
SumSeq(s) == IF s = <<>> THEN 0 ELSE Head(s) + SumSeq(Tail(s))

\* The records of a group, in table order.
Members(t, key) ==
  SelectSeq(t, LAMBDA r : /\ r.Pclass = <<key.Pclass>>
                          /\ r.Sex = <<key.Sex>>
                          /\ r.age_group = <<key.age_group>>)

\* groupby([...], observed=False).agg(count of PassengerId, sum of Survived):
\* one row per combination of the categories, observed or not; a record with
\* a missing key is in no group.
GroupByDemographics(t) ==
  LET keys == FromProduct(pclass_categories, sex_categories, age_labels)
  IN  [i \in DOMAIN keys |->
         LET m == Members(t, keys[i])
         IN  keys[i] @@
             [n_passengers |-> Len(SelectSeq(m, LAMBDA r : r.PassengerId # <<>>)),
              n_survivors |-> SumSeq([j \in DOMAIN m |-> m[j].Survived])]]

RowKey(row) == [Pclass |-> row.Pclass, Sex |-> row.Sex, age_group |-> row.age_group]

\* Variant of Reindex: only the groups that were observed are kept (the
\* grouping with observed=True and no reindex).
ReindexObservedOnly(g, index) == SelectSeq(g, LAMBDA row : row.n_passengers > 0)

\* .reindex(index, fill_value=0): the rows in the order of the index, zeros
\* for a key the grouping has no row for.
Reindex(g, index) ==
  [i \in DOMAIN index |->
     LET hits == {j \in DOMAIN g : RowKey(g[j]) = index[i]}
     IN  IF hits = {} THEN index[i] @@ [n_passengers |-> 0, n_survivors |-> 0]
         ELSE g[CHOOSE j \in hits : TRUE]]

\* round(num / den, 2) in hundredths, ties to even.  (A tie needs a
\* denominator that is a multiple of 8.)
Round2(num, den) ==
  LET q == (100 * num) \div den
      rem == (100 * num) % den
  IN  IF 2 * rem > den \/ (2 * rem = den /\ q % 2 = 1) THEN q + 1 ELSE q

\* Variant of SurvivalRate: the quotient taken the wrong way round.
SurvivalRateInverted(row) ==
  IF row.n_survivors > 0 THEN Round2(row.n_passengers, row.n_survivors) ELSE 0

\* Lines 57-62
SurvivalRate(row) ==
  IF row.n_passengers > 0 THEN Round2(row.n_survivors, row.n_passengers) ELSE 0

survival_demographics(t) ==
  LET prepared == [i \in DOMAIN t |-> Prepare(t[i])]
      grouped == Reindex(GroupByDemographics(prepared), idx)
  IN  [i \in DOMAIN grouped |->
         grouped[i] @@ [survival_rate |-> SurvivalRate(grouped[i])]]

-----------------------------------------------------------------------------
\* family_groups

\* Variant of WithFamilySize: the passenger is not counted in the family.
WithFamilySizeOffByOne(r) == r @@ [family_size |-> r.SibSp + r.Parch]

\* Line 117
WithFamilySize(r) == r @@ [family_size |-> r.SibSp + r.Parch + 1]

KeyBefore(a, b) == a[1] < b[1] \/ (a[1] = b[1] /\ a[2] < b[2])

\* The keys of a set in ascending order, the first component first.
RECURSIVE SortedKeys(_)
SortedKeys(S) ==
  IF S = {} THEN <<>>
  ELSE LET least == CHOOSE k \in S : \A o \in S : o = k \/ KeyBefore(k, o)
       IN  <<least>> \o SortedKeys(S \ {least})

MinOf(S) == CHOOSE x \in S : \A y \in S : x <= y
MaxOf(S) == CHOOSE x \in S : \A y \in S : y <= x

\* The mean of a non-empty column, as an exact fraction.
Mean(s) == [num |-> SumSeq(s), den |-> Len(s)]

\* groupby(["family_size", "Pclass"]).agg(...).reset_index(): one row per key
\* that occurs, in ascending order of (family_size, Pclass).
GroupByFamily(t) ==
  LET keys == SortedKeys({<<t[i].family_size, t[i].Pclass>> : i \in DOMAIN t})
  IN  [i \in DOMAIN keys |->
         LET m == SelectSeq(t, LAMBDA r : /\ r.family_size = keys[i][1]
                                         /\ r.Pclass = keys[i][2])
             fares == [j \in DOMAIN m |-> m[j].Fare]
         IN  [family_size |-> keys[i][1],
              Pclass |-> keys[i][2],
              n_passengers |-> Len(SelectSeq(m, LAMBDA r : r.PassengerId # <<>>)),
              avg_fare |-> Mean(fares),
              min_fare |-> MinOf(Range(fares)),
              max_fare |-> MaxOf(Range(fares))]]

\* The key sort_values(by=["Pclass", "family_size"]) orders a row by.
SortKey(row) == <<row.Pclass, row.family_size>>

\* Insert a row after the rows of s that do not sort after it.
RECURSIVE InsertRow(_, _)
InsertRow(row, s) ==
  IF s = <<>> THEN <<row>>
  ELSE IF KeyBefore(SortKey(row), SortKey(Head(s))) THEN <<row>> \o s
  ELSE <<Head(s)>> \o InsertRow(row, Tail(s))

\* Variant of SortValues: the rows left in the order of the grouping.
SortValuesOmitted(s) == s

\* sort_values(by=[...]): a stable sort (rows with equal keys keep their
\* order).
RECURSIVE SortValues(_)
SortValues(s) ==
  IF s = <<>> THEN <<>>
  ELSE InsertRow(s[Len(s)], SortValues(SubSeq(s, 1, Len(s) - 1)))

family_groups(t) ==
  SortValues(GroupByFamily([i \in DOMAIN t |-> WithFamilySize(t[i])]))

-----------------------------------------------------------------------------
\* last_names

\* Variant of LastName: the surname not trimmed.
LastNameUntrimmed(r) == SplitFirst(r.Name)

\* Line 146
LastName(r) == StrStrip(SplitFirst(r.Name))

\* The distinct values of a column in the order they first occur, each with
\* the number of its occurrences (value_counts before its sort).
CountValues(col) ==
  LET firsts == {i \in DOMAIN col : \A j \in 1..(i - 1) : col[j] # col[i]}
      at(k) == CHOOSE i \in firsts : Cardinality({j \in firsts : j < i}) = k - 1
  IN  [k \in 1..Cardinality(firsts) |->
         [last_name |-> col[at(k)],
          count |-> Cardinality({j \in DOMAIN col : col[j] = col[at(k)]})]]

\* Variant of SortedDescending: the counts sorted in ascending order.
SortedAscending(vc) ==
  {s \in {[i \in DOMAIN vc |-> vc[p[i]]] : p \in Permutations(DOMAIN vc)} :
     \A i \in 1..(Len(s) - 1) : s[i].count <= s[i + 1].count}

\* The orders sort_values(ascending=False) may leave the counts in: its
\* default sort is not stable, so values with equal counts come in any order.
SortedDescending(vc) ==
  {s \in {[i \in DOMAIN vc |-> vc[p[i]]] : p \in Permutations(DOMAIN vc)} :
     \A i \in 1..(Len(s) - 1) : s[i].count >= s[i + 1].count}

\* Series.value_counts(): the results it may return.
value_counts(col) == SortedDescending(CountValues(col))

last_names(t) == value_counts([i \in DOMAIN t |-> LastName(t[i])])

-----------------------------------------------------------------------------
\* The table

SmithJohn ==
  <<"S", "m", "i", "t", "h", ",", " ", "M", "r", ".", " ", "J", "o", "h", "n">>

BaseRecord ==
  [Survived |-> 1, Pclass |-> 1, Name |-> SmithJohn, Sex |-> Male,
   Age |-> <<20>>, SibSp |-> 0, Parch |-> 0, Fare |-> 7]

Ages == {<<>>, <<0>>, <<12>>, <<13>>, <<19>>, <<20>>, <<59>>, <<60>>}

SexTexts ==
  { <<" ", "M", "a", "l", "e", " ">>,
    <<"F", "E", "M", "A", "L", "E">>,
    <<"f", "e", "m", "a", "l", "e", "\t">>,
    <<"c", "h", "i", "l", "d">>,
    <<>> }

DemographicRecords ==
  {[BaseRecord EXCEPT !.Pclass = c, !.Survived = s] : c \in 1..3, s \in {0, 1}}
  \cup {[BaseRecord EXCEPT !.Sex = Female, !.Age = a] :
          a \in Ages}
  \cup {[BaseRecord EXCEPT !.Pclass = 2, !.Sex = x, !.Age = <<13>>, !.Survived = 0] :
          x \in SexTexts}

FamilyRecords ==
  {[BaseRecord EXCEPT !.SibSp = a, !.Parch = b, !.Pclass = c, !.Fare = f] :
     a \in {0, 1}, b \in {0, 2}, c \in {1, 3}, f \in {7, 30}}

Names ==
  { SmithJohn,
    <<" ", "S", "m", "i", "t", "h", " ", ",", "M", "r", "s", ".", " ", "A">>,
    <<"L", "e", "e", ",", " ", "J", "r", ".", ",", " ", "B">>,
    <<"L", "e", "e", ",", "C">>,
    <<"N", "g">> }

NameRecords == {[BaseRecord EXCEPT !.Name = n] : n \in Names}

Tables(records, n) == UNION {[1..k -> records] : k \in 0..n}

\* pd.read_csv: the rows in file order, each with its PassengerId.
ReadCsv(rows) ==
  [i \in DOMAIN rows |-> rows[i] @@ [PassengerId |-> <<i>>]]

Init ==
  /\ df \in {ReadCsv(rows) : rows \in Tables(DemographicRecords, MaxRecords)
                                       \cup Tables(FamilyRecords, MaxRecords)
                                       \cup Tables(NameRecords, MaxNames)}
  /\ pc = "demographics"
  /\ demographic_summary = <<>>
  /\ family_summary = <<>>
  /\ last_name_counts = <<>>

SurvivalDemographics ==
  /\ pc = "demographics"
  /\ demographic_summary' = survival_demographics(df)
  /\ pc' = "family"
  /\ UNCHANGED <<df, family_summary, last_name_counts>>

FamilyGroups ==
  /\ pc = "family"
  /\ family_summary' = family_groups(df)
  /\ pc' = "names"
  /\ UNCHANGED <<df, demographic_summary, last_name_counts>>

LastNames ==
  /\ pc = "names"
  /\ last_name_counts' \in last_names(df)
  /\ pc' = "done"
  /\ UNCHANGED <<df, demographic_summary, family_summary>>

Next == SurvivalDemographics \/ FamilyGroups \/ LastNames

Spec == Init /\ [][Next]_vars

-----------------------------------------------------------------------------
\* What the documentation says of a record, stated without the operators
\* above.

\* The age band the documentation gives an age: Child [0,12], Teen (12,19],
\* Adult (19,59], Senior (59,oo); none for a missing age.
DocBand(age) ==
  IF age = <<>> \/ age[1] < 0 THEN <<>>
  ELSE IF age[1] <= 12 THEN <<"Child">>
  ELSE IF age[1] <= 19 THEN <<"Teen">>
  ELSE IF age[1] <= 59 THEN <<"Adult">>
  ELSE <<"Senior">>

\* c is the letter l, in either case.
SameLetter(c, l) == c = l \/ (IsUpper(c) /\ Ord(l) - Ord(c) = Ord("a") - Ord("A"))

\* The text reads as the word w once case and surrounding whitespace are
\* ignored.
NormalisesTo(text, w) ==
  \E lo \in 1..(Len(text) + 1) :
    LET hi == lo + Len(w) - 1
    IN  /\ hi <= Len(text)
        /\ \A k \in 1..(lo - 1) : IsSpace(text[k])
        /\ \A k \in (hi + 1)..Len(text) : IsSpace(text[k])
        /\ \A k \in 1..Len(w) : SameLetter(text[lo + k - 1], w[k])

\* s is the text p without its surrounding whitespace.
TrimOf(p, s) ==
  \E lo \in 1..(Len(p) + 1) :
    LET hi == lo + Len(s) - 1
    IN  /\ hi <= Len(p)
        /\ \A k \in 1..(lo - 1) : IsSpace(p[k])
        /\ \A k \in (hi + 1)..Len(p) : IsSpace(p[k])
        /\ \A k \in 1..Len(s) : p[lo + k - 1] = s[k]
        /\ s # <<>> => ~IsSpace(s[1]) /\ ~IsSpace(s[Len(s)])

\* s is the surname of the name: the text before its first comma, trimmed.
IsSurnameOf(s, name) ==
  \E cut \in 0..Len(name) :
    /\ \A k \in 1..cut : name[k] # ","
    /\ cut = Len(name) \/ name[cut + 1] = ","
    /\ TrimOf(SubSeq(name, 1, cut), s)

\* The records the documentation puts in the bucket (c, sex, band).
DocMembers(c, sex, band) ==
  {i \in DOMAIN df : /\ df[i].Pclass = c
                     /\ NormalisesTo(df[i].Sex, sex)
                     /\ DocBand(df[i].Age) = <<band>>}

DemographicsDone == pc # "demographics"
FamilyDone == pc \in {"names", "done"}
NamesDone == pc = "done"

Classes == {1, 2, 3}
Sexes == {Male, Female}
Bands == {"Child", "Teen", "Adult", "Senior"}

RowsOf(c, sex, band) ==
  {i \in DOMAIN demographic_summary :
     /\ demographic_summary[i].Pclass = c
     /\ demographic_summary[i].Sex = sex
     /\ demographic_summary[i].age_group = band}

-----------------------------------------------------------------------------
\* C1: survival_demographics returns exactly 24 rows, exactly one for each
\* combination of class, sex and age band, whatever the table (empty and
\* sparse tables included), and a combination no record matches has
\* passenger_count 0 and survivor_count 0.
C1_FullCrossProduct ==
  DemographicsDone =>
    /\ Len(demographic_summary) = 24
    /\ \A c \in Classes, sex \in Sexes, band \in Bands :
         /\ Cardinality(RowsOf(c, sex, band)) = 1
         /\ DocMembers(c, sex, band) = {} =>
              \A i \in RowsOf(c, sex, band) :
                /\ demographic_summary[i].n_passengers = 0
                /\ demographic_summary[i].n_survivors = 0

\* A sparse table: some bucket is filled and some bucket is empty.
C1_Witness ==
  /\ DemographicsDone
  /\ df # <<>>
  /\ \E i \in DOMAIN demographic_summary : demographic_summary[i].n_passengers > 0
  /\ \E i \in DOMAIN demographic_summary : demographic_summary[i].n_passengers = 0

C3_CountedInDocBand ==
  DemographicsDone =>
    \A i \in DOMAIN demographic_summary :
      demographic_summary[i].n_passengers =
        Cardinality(DocMembers(demographic_summary[i].Pclass,
                               demographic_summary[i].Sex,
                               demographic_summary[i].age_group))

\* C4: the passenger_counts of the 24 rows sum to at most the number of
\* records, and to exactly that number when every record has an age that is
\* a non-negative number (0 included) and a sex that normalises to male or
\* female.
C4_CountsSumToRecords ==
  DemographicsDone =>
    LET total == SumSeq([i \in DOMAIN demographic_summary |->
                           demographic_summary[i].n_passengers])
        valid == \A i \in DOMAIN df :
                   /\ df[i].Age # <<>>
                   /\ df[i].Age[1] >= 0
                   /\ \E sex \in Sexes : NormalisesTo(df[i].Sex, sex)
    IN  /\ total <= Len(df)
        /\ valid => total = Len(df)

\* C5: the sex is lower-cased and trimmed before it is matched, a record
\* whose sex is then neither male nor female is in no bucket, and the 24 rows
\* are still returned: for each class and sex the buckets hold exactly the
\* records of that class whose sex reads as that sex and whose age has a
\* band.
C5_SexNormalised ==
  DemographicsDone =>
    /\ Len(demographic_summary) = 24
    /\ \A c \in Classes, sex \in Sexes :
         SumSeq([i \in DOMAIN demographic_summary |->
                   IF demographic_summary[i].Pclass = c
                      /\ demographic_summary[i].Sex = sex
                   THEN demographic_summary[i].n_passengers ELSE 0])
         = Cardinality({i \in DOMAIN df : /\ df[i].Pclass = c
                                          /\ NormalisesTo(df[i].Sex, sex)
                                          /\ Cut(df[i].Age) # <<>>})

\* ' Male ' is counted as male beside a record of an unrecognised sex, which
\* is counted nowhere.
C5_Witness ==
  /\ DemographicsDone
  /\ \E i \in DOMAIN df : df[i].Sex = <<" ", "M", "a", "l", "e", " ">>
  /\ \E i \in DOMAIN df : df[i].Sex = <<"c", "h", "i", "l", "d">>
  /\ \E i \in RowsOf(2, Male, "Teen") : demographic_summary[i].n_passengers = 1
  /\ SumSeq([i \in DOMAIN demographic_summary |->
               demographic_summary[i].n_passengers]) = 1

\* C6: last_names gives each surname (the text of Name before its first
\* comma, trimmed) the number of records with that surname, and the counts
\* sum to the number of records.
C6_SurnameCounts ==
  NamesDone =>
    /\ \A i \in DOMAIN last_name_counts :
         last_name_counts[i].count =
           Cardinality({k \in DOMAIN df :
                          IsSurnameOf(last_name_counts[i].last_name, df[k].Name)})
    /\ \A i, j \in DOMAIN last_name_counts :
         last_name_counts[i].last_name = last_name_counts[j].last_name => i = j
    /\ SumSeq([i \in DOMAIN last_name_counts |-> last_name_counts[i].count])
         = Len(df)

\* 'Smith, Mr. John' and ' Smith ,Mrs. A' are both counted under 'Smith',
\* beside another surname.
C6_Witness ==
  /\ NamesDone
  /\ \E k \in DOMAIN df : df[k].Name = SmithJohn
  /\ \E i \in DOMAIN last_name_counts :
       /\ last_name_counts[i].last_name = <<"S", "m", "i", "t", "h">>
       /\ last_name_counts[i].count = 2
  /\ Len(last_name_counts) = 2

\* The records of a family bucket.
FamilyMembers(size, c) ==
  {i \in DOMAIN df : df[i].SibSp + df[i].Parch + 1 = size /\ df[i].Pclass = c}

\* C7: every row of family_groups has family_size = SibSp + Parch + 1 >= 1,
\* the number of records of its (family_size, class) as passenger_count, and
\* min_fare <= avg_fare <= max_fare, these being the minimum, mean and
\* maximum fare of exactly those records.
C7_FamilyRows ==
  FamilyDone =>
    \A i \in DOMAIN family_summary :
      LET row == family_summary[i]
          m == FamilyMembers(row.family_size, row.Pclass)
          fares == {df[k].Fare : k \in m}
      IN  /\ row.family_size >= 1
          /\ m # {}
          /\ row.n_passengers = Cardinality(m)
          /\ row.min_fare \in fares /\ \A f \in fares : row.min_fare <= f
          /\ row.max_fare \in fares /\ \A f \in fares : f <= row.max_fare
          /\ row.avg_fare.den = Cardinality(m)
          /\ row.avg_fare.num =
               SumSeq([k \in DOMAIN df |-> IF k \in m THEN df[k].Fare ELSE 0])
          /\ row.min_fare * row.avg_fare.den <= row.avg_fare.num
          /\ row.avg_fare.num <= row.max_fare * row.avg_fare.den

\* A family of four (SibSp 1, Parch 2) with two passengers at different
\* fares: min 7 < mean 18.5 < max 30.
C7_Witness ==
  /\ FamilyDone
  /\ \E i \in DOMAIN family_summary :
       /\ family_summary[i].family_size = 4
       /\ family_summary[i].n_passengers = 2
       /\ family_summary[i].min_fare = 7
       /\ family_summary[i].max_fare = 30
       /\ family_summary[i].avg_fare = [num |-> 37, den |-> 2]

\* C8: family_groups returns exactly one row for each (family_size, class)
\* that occurs in a record and none for any other, ordered by class and,
\* within a class, by family_size.
C8_ObservedRowsInOrder ==
  FamilyDone =>
    /\ {<<family_summary[i].family_size, family_summary[i].Pclass>> :
          i \in DOMAIN family_summary}
         = {<<df[k].SibSp + df[k].Parch + 1, df[k].Pclass>> : k \in DOMAIN df}
    /\ \A i, j \in DOMAIN family_summary :
         i < j =>
           \/ family_summary[i].Pclass < family_summary[j].Pclass
           \/ /\ family_summary[i].Pclass = family_summary[j].Pclass
              /\ family_summary[i].family_size < family_summary[j].family_size

\* A larger family of class 1 comes before a smaller family of class 3.
C8_Witness ==
  /\ FamilyDone
  /\ Len(family_summary) = 2
  /\ family_summary[1].Pclass = 1 /\ family_summary[1].family_size = 4
  /\ family_summary[2].Pclass = 3 /\ family_summary[2].family_size = 1

\* Text order: character by character in ASCII order, a prefix first.
TextBefore(a, b) ==
  \E n \in 0..Len(a) :
    /\ n <= Len(b)
    /\ \A k \in 1..n : a[k] = b[k]
    /\ \/ n = Len(a) /\ n < Len(b)
       \/ n < Len(a) /\ n < Len(b) /\ Ord(a[n + 1]) < Ord(b[n + 1])

BandRank(band) == CHOOSE k \in DOMAIN age_labels : age_labels[k] = band

\* C9 as stated: the rows are in ascending order of (class, sex, age band),
\* class 1 before 2 before 3, the sexes in ascending order and the bands in
\* the order Child, Teen, Adult, Senior.
C9_AscendingBySex ==
  DemographicsDone =>
    \A i, j \in DOMAIN demographic_summary :
      i < j =>
        LET a == demographic_summary[i]
            b == demographic_summary[j]
        IN  \/ a.Pclass < b.Pclass
            \/ a.Pclass = b.Pclass /\ TextBefore(a.Sex, b.Sex)
            \/ /\ a.Pclass = b.Pclass
               /\ a.Sex = b.Sex
               /\ BandRank(a.age_group) < BandRank(b.age_group)

\* C9 as amended: the rows are ordered by class 1, 2, 3, within a class male
\* before female, and within a class and sex Child, Teen, Adult, Senior; the
\* order is the same for every table.
C9_MaleBeforeFemale ==
  DemographicsDone =>
    \A i, j \in DOMAIN demographic_summary :
      i < j =>
        LET a == demographic_summary[i]
            b == demographic_summary[j]
        IN  \/ a.Pclass < b.Pclass
            \/ a.Pclass = b.Pclass /\ a.Sex = Male /\ b.Sex = Female
            \/ /\ a.Pclass = b.Pclass
               /\ a.Sex = b.Sex
               /\ BandRank(a.age_group) < BandRank(b.age_group)

\* The summary of a table that has records of both sexes and two classes.
C9_Witness ==
  /\ DemographicsDone
  /\ \E i, j \in DOMAIN df : df[i].Sex = Female /\ df[j].Sex = Male /\ df[j].Pclass = 3
  /\ Len(demographic_summary) = 24
  /\ demographic_summary[4].Sex = Male /\ demographic_summary[5].Sex = Female
  /\ demographic_summary[8].Pclass = 1 /\ demographic_summary[9].Pclass = 2

\* The first record whose surname is s.
FirstSeen(s) ==
  CHOOSE k \in DOMAIN df :
    /\ IsSurnameOf(s, df[k].Name)
    /\ \A o \in 1..(k - 1) : ~IsSurnameOf(s, df[o].Name)

====
